---- MODULE Spec2Model ----
(***************************************************************************)
(* blood-connect-server: the donation-request lifecycle and the role and   *)
(* status checks that gate it (src/unnamed/part_001, the final snapshot    *)
(* of the service).                                                        *)
(*                                                                         *)
(* Every route handler is an async function: between two awaits of a       *)
(* collection call another request's handler can run.  Each await of a     *)
(* collection call (findOne, updateOne, insertOne, deleteOne) is therefore *)
(* one action, and the synchronous code up to the next await belongs to    *)
(* that action.  The first action of a handler also draws the request's    *)
(* inputs (the verified principal, the :id, the JSON body).                *)
(***************************************************************************)
EXTENDS Integers, Sequences, FiniteSets, TLC

\* ------------------------------------------------------------------ bounds
MaxRequests == 2    \* donation requests ever inserted
MaxBlogs    == 2    \* blog posts ever inserted
MaxOps      == 2    \* requests the server handles in one behaviour

\* ------------------------------------------------------------------ values
Emails   == {"a", "b", "c", "d"}       \* verified principals (req.firebaseUser.email)
Ids      == 1..MaxRequests             \* _id of a donation request, in insertion order
BadId    == 0                          \* a path :id that is no ObjectId (not 24 hex digits)
BlogIds  == 1..MaxBlogs                \* _id of a blog post, in insertion order
PathIds  == Ids \cup {BadId}            \* what a caller can put in :id
CallIds  == {"h1", "h2"}               \* handlers that can be in flight together
SlotNo(h) == IF h = "h1" THEN 1 ELSE 2

Absent   == "undefined"                \* a key the document or body does not hold
Roles    == {"donor", "volunteer", "admin"}
UserStatuses == {"active", "blocked"}
Statuses == {"pending", "inprogress", "done", "canceled"}

\* JavaScript truthiness of a body value (strings only: "" and undefined are falsy)
Truthy(v) == v # Absent /\ v # ""

\* ---------------------------------------------------------------- documents
\* users[e] is the document findOne({ email: e }) returns, the first stored
\* with that email; copies counts the documents stored with it
NoUser == [exists |-> FALSE, role |-> Absent, status |-> Absent, name |-> Absent,
           loginCount |-> 0, copies |-> 0]
User(r, s) == [exists |-> TRUE, role |-> r, status |-> s, name |-> "N0",
               loginCount |-> 1, copies |-> 1]

\* the user documents the server starts on
InitUsers ==
  [e \in Emails |->
     CASE e = "a" -> User("donor", "active")
       [] e = "b" -> User("volunteer", "blocked")
       [] e = "c" -> User("admin", "active")
       [] OTHER   -> NoUser]

NoDoc == [exists |-> FALSE, requesterEmail |-> Absent, status |-> Absent,
          recipientName |-> Absent, donorName |-> Absent, donorEmail |-> Absent,
          createdAt |-> Absent]

\* a request body: the keys the handlers read or store; Absent = key not sent
NoBody == [requesterEmail |-> Absent, status |-> Absent, recipientName |-> Absent,
           donorName |-> Absent, donorEmail |-> Absent, role |-> Absent,
           createdAt |-> Absent, email |-> Absent, name |-> Absent,
           title |-> Absent]

BodyKeys == {"requesterEmail", "status", "recipientName", "donorName", "donorEmail", "role",
             "createdAt", "email", "name", "title"}

\* a blog post: the keys the blog routes write
NoBlog == [exists |-> FALSE, status |-> Absent, title |-> Absent]
BlogStatuses == {"draft", "published"}

\* req.query of the list routes; Absent = parameter not sent
NoQuery == [status |-> Absent, limit |-> Absent]

\* Object.keys(body): the keys the body holds
ObjectKeys(body) == {k \in BodyKeys : body[k] # Absent}

VARIABLES
  users,      \* userCollection: email -> user document (NoUser: no document)
  requests,   \* donationRequestCollection: _id -> document (NoDoc: none)
  nextId,     \* the _id the next insertOne gets
  calls,      \* the handlers in flight and their last answers
  nops,       \* requests handled so far
  blogs,      \* blogCollection: _id -> document (NoBlog: none)
  nextBlogId  \* the _id the next insertOne into blogCollection gets

vars == <<users, requests, nextId, calls, nops, blogs, nextBlogId>>

\* a handler slot: op/pc say where the handler is; email, id (of a donation
\* request) or userId (of a user document) and body are its inputs, request
\* is what its findOne returned, code/msg its response
Idle == [op |-> "none", pc |-> "idle", email |-> Absent, id |-> 0, userId |-> Absent,
         body |-> NoBody, query |-> NoQuery, request |-> NoDoc, code |-> 0,
         msg |-> Absent, list |-> <<>>]

\* --------------------------------------------------- collection operations
\* a role and status remembered from the server's start instead of read again
FindUserCached(email) == InitUsers[email]

\* userCollection.findOne({ email })
FindUser(email) == users[email]

\* ObjectId.isValid(id); new ObjectId(id) throws exactly when it is false
ObjectIdIsValid(id) == id # BadId

\* donationRequestCollection.findOne({ _id })
FindRequest(id) == requests[id]

\* updateOne with upsert: a filter that matches nothing inserts the fields
SetFieldsUpsert(doc, fields) ==
  [k \in DOMAIN doc |->
     IF k = "exists" THEN TRUE
     ELSE IF k \in DOMAIN fields /\ k # "role" /\ fields[k] # Absent
     THEN fields[k] ELSE doc[k]]

\* updateOne(query, { $set: fields }) on one document: the keys of fields
\* replace the document's; a query that matches nothing changes nothing
SetFields(doc, fields) ==
  IF ~doc.exists THEN doc
  ELSE [k \in DOMAIN doc |->
          IF k \in DOMAIN fields /\ k # "role" /\ fields[k] # Absent
          THEN fields[k] ELSE doc[k]]

\* insertOne(req.body): the body is stored as sent
NewRequest(body) ==
  [exists |-> TRUE, requesterEmail |-> body.requesterEmail, status |-> body.status,
   recipientName |-> body.recipientName, donorName |-> body.donorName,
   donorEmail |-> body.donorEmail, createdAt |-> body.createdAt]

\* the blog posts the server starts on: one, published
InitBlogs ==
  [i \in BlogIds |->
     IF i = 1 THEN [exists |-> TRUE, status |-> "published", title |-> "T1"]
     ELSE NoBlog]

\* The server starts on the database earlier runs left: a donor, a volunteer
\* an admin has blocked, an admin, a principal that never called /add-user
\* (no user document), and one pending request that the donor created.
Init ==
  /\ users = InitUsers
  /\ requests = [i \in Ids |->
                   IF i = 1
                   THEN NewRequest([NoBody EXCEPT !.requesterEmail = "a",
                                                  !.status = "pending",
                                                  !.recipientName = "R",
                                                  !.createdAt = "t1"])
                   ELSE NoDoc]
  /\ nextId = 2
  /\ calls = [h \in CallIds |-> Idle]
  /\ nops = 0
  /\ blogs = InitBlogs
  /\ nextBlogId = 2

\* a slot is free when no handler occupies it
Free(h) == calls[h].pc \in {"idle", "done"}

\* an arriving request takes the first free slot (the slots are only names)
Begin(h) ==
  /\ Free(h)
  /\ \A k \in CallIds : Free(k) => SlotNo(h) <= SlotNo(k)
  /\ nops < MaxOps
  /\ nops' = nops + 1

\* res.status(code).send(...): the handler ends and its locals are gone
Respond(h, c, code, msg) ==
  calls' = [calls EXCEPT ![h] = [c EXCEPT !.pc = "done", !.code = code, !.msg = msg,
                                          !.request = NoDoc]]

Goto(h, c, pc) ==
  calls' = [calls EXCEPT ![h] = [c EXCEPT !.pc = pc]]


\* ------------------------------------------------------------ request bodies
\* PATCH /donation-requests/confirm/:id sends { donorName, donorEmail }
ConfirmBodies ==
  {[NoBody EXCEPT !.donorName = e, !.donorEmail = e] : e \in Emails}

\* PATCH /donation-requests/:id sends any keys: a status alone, other fields
\* of the document with or without a status, the requesterEmail
UpdateBodies ==
  {[NoBody EXCEPT !.status = s] : s \in Statuses \cup {"", "bogus"}}
    \cup {[NoBody EXCEPT !.recipientName = "X"],
          [NoBody EXCEPT !.status = "done", !.recipientName = "X"],
          [NoBody EXCEPT !.requesterEmail = "c"]}

\* POST /donation-requests sends the new document
CreateBodies ==
  {[NoBody EXCEPT !.requesterEmail = e, !.status = s, !.recipientName = "R",
                  !.createdAt = "t2"] :
     e \in Emails, s \in {"pending", "done"}}

\* PATCH /update-users/status/:id sends { status }
UserStatusBodies ==
  {[NoBody EXCEPT !.status = s] : s \in UserStatuses \cup {"bogus"}}

\* PATCH /update-users/role/:id sends { role }
UserRoleBodies ==
  {[NoBody EXCEPT !.role = r] : r \in Roles \cup {"bogus"}}

\* ------------------------------------- PATCH /donation-requests/confirm/:id
\* the status check left out
ConfirmCheckNoStatus(request, email) ==
  IF ~request.exists THEN 404
  ELSE IF request.requesterEmail = email THEN 403
  ELSE 0

\* the own-request check left out
ConfirmCheckNoOwner(request, email) ==
  IF ~request.exists THEN 404
  ELSE IF request.status # "pending" THEN 400
  ELSE 0

\* the own-request check moved before the status check
ConfirmCheckOwnerFirst(request, email) ==
  IF ~request.exists THEN 404
  ELSE IF request.requesterEmail = email THEN 403
  ELSE IF request.status # "pending" THEN 400
  ELSE 0

\* the three checks after findOne, in the handler's order; 0: all passed
ConfirmCheck(request, email) ==
  IF ~request.exists THEN 404
  ELSE IF request.status # "pending" THEN 400
  ELSE IF request.requesterEmail = email THEN 403
  ELSE 0

\* updateDoc = { $set: { status: "inprogress", donorName, donorEmail } }
ConfirmUpdateDoc(body) ==
  [status |-> "inprogress", donorName |-> body.donorName, donorEmail |-> body.donorEmail]

\* findOne and the checks that follow it.  The body ({ donorName, donorEmail })
\* is drawn where the handler first uses it, in updateDoc.  new ObjectId(id)
\* is not guarded: on a malformed id it throws into the catch block (500).
ConfirmFindOne(h) ==
  \E email \in Emails, id \in PathIds :
    LET m == [Idle EXCEPT !.op = "confirm", !.email = email, !.id = id]
        request == FindRequest(id)
        c == [m EXCEPT !.request = request]
        r == ConfirmCheck(request, email)
    IN /\ Begin(h)
       /\ IF ~ObjectIdIsValid(id) THEN Respond(h, m, 500, Absent)
          ELSE IF r = 0 THEN Goto(h, [c EXCEPT !.request = NoDoc], "updateOne")
          ELSE Respond(h, c, r, IF r = 400 THEN request.status ELSE Absent)
       /\ UNCHANGED <<users, requests, nextId, blogs, nextBlogId>>

ConfirmUpdateOne(h) ==
  \E body \in ConfirmBodies :
    LET c == calls[h] IN
      /\ c.op = "confirm" /\ c.pc = "updateOne"
      /\ requests' = [requests EXCEPT ![c.id] = SetFields(@, ConfirmUpdateDoc(body))]
      /\ Respond(h, [c EXCEPT !.body = body], 200, Absent)
      /\ UNCHANGED <<users, nextId, nops, blogs, nextBlogId>>

\* --------------------------------------------- PATCH /donation-requests/:id
\* the key count left out: any body with a status counts as status-only
IsStatusOnlyUpdateAnyLength(updateData) == Truthy(updateData.status)

\* Object.keys(updateData).length === 1 && updateData.status
IsStatusOnlyUpdate(updateData) ==
  Cardinality(ObjectKeys(updateData)) = 1 /\ Truthy(updateData.status)

\* the earlier rule for every body: owner or admin, the volunteer not let in
UpdateForbiddenOwnerOrAdmin(request, requester, email, updateData) ==
  /\ request.requesterEmail # email
  /\ requester.role # "admin"

\* the 403 branches; requester?.role of a missing user is undefined
UpdateForbidden(request, requester, email, updateData) ==
  IF IsStatusOnlyUpdate(updateData)
  THEN /\ request.requesterEmail # email
       /\ requester.role # "admin"
       /\ requester.role # "volunteer"
  ELSE /\ request.requesterEmail # email
       /\ requester.role # "admin"

\* if (!ObjectId.isValid(id)) answers 400 before the query is built
UpdateFindRequest(h) ==
  \E email \in Emails, id \in PathIds :
    LET m == [Idle EXCEPT !.op = "update", !.email = email, !.id = id]
        request == FindRequest(id)
        c == [m EXCEPT !.request = request]
    IN /\ Begin(h)
       /\ IF ~ObjectIdIsValid(id) THEN Respond(h, m, 400, Absent)
          ELSE IF ~request.exists THEN Respond(h, c, 404, Absent)
          ELSE Goto(h, c, "findRequester")
       /\ UNCHANGED <<users, requests, nextId, blogs, nextBlogId>>

\* updateData = req.body is drawn where the handler first looks into it
UpdateFindRequester(h) ==
  \E updateData \in UpdateBodies :
    LET c == [calls[h] EXCEPT !.body = updateData]
        requester == FindUser(c.email)
    IN /\ calls[h].op = "update" /\ calls[h].pc = "findRequester"
       /\ IF UpdateForbidden(c.request, requester, c.email, updateData)
          THEN Respond(h, c, 403, Absent)
          ELSE Goto(h, [c EXCEPT !.request = NoDoc], "updateOne")
       /\ UNCHANGED <<users, requests, nextId, nops, blogs, nextBlogId>>

UpdateUpdateOne(h) ==
  LET c == calls[h] IN
    /\ c.op = "update" /\ c.pc = "updateOne"
    /\ requests' = [requests EXCEPT ![c.id] = SetFields(@, c.body)]
    /\ Respond(h, c, 200, Absent)
    /\ UNCHANGED <<users, nextId, nops, blogs, nextBlogId>>

\* -------------------------------------------- DELETE /donation-requests/:id
\* the status-update rule copied: the volunteer let in
DeleteForbiddenVolunteerToo(request, requester, email) ==
  /\ request.requesterEmail # email
  /\ requester.role # "admin"
  /\ requester.role # "volunteer"

DeleteForbidden(request, requester, email) ==
  /\ request.requesterEmail # email
  /\ requester.role # "admin"

\* new ObjectId(id) is not guarded here either (500 on a malformed id)
DeleteFindRequest(h) ==
  \E email \in Emails, id \in PathIds :
    LET m == [Idle EXCEPT !.op = "delete", !.email = email, !.id = id]
        request == FindRequest(id)
        c == [m EXCEPT !.request = request]
    IN /\ Begin(h)
       /\ IF ~ObjectIdIsValid(id) THEN Respond(h, m, 500, Absent)
          ELSE IF ~request.exists THEN Respond(h, c, 404, Absent)
          ELSE Goto(h, c, "findRequester")
       /\ UNCHANGED <<users, requests, nextId, blogs, nextBlogId>>

\* deleteOne issued before the authorization check
DeleteFindRequesterDeleteFirst(h) ==
  LET c == calls[h]
      requester == FindUser(c.email)
  IN /\ c.op = "delete" /\ c.pc = "findRequester"
     /\ requests' = [requests EXCEPT ![c.id] = NoDoc]
     /\ IF DeleteForbidden(c.request, requester, c.email)
        THEN Respond(h, c, 403, Absent)
        ELSE Respond(h, c, 200, Absent)
     /\ UNCHANGED <<users, nextId, nops, blogs, nextBlogId>>

\* the second findOne and the authorization check
DeleteFindRequester(h) ==
  LET c == calls[h]
      requester == FindUser(c.email)
  IN /\ c.op = "delete" /\ c.pc = "findRequester"
     /\ IF DeleteForbidden(c.request, requester, c.email)
        THEN Respond(h, c, 403, Absent)
        ELSE Goto(h, [c EXCEPT !.request = NoDoc], "deleteOne")
     /\ UNCHANGED <<users, requests, nextId, nops, blogs, nextBlogId>>

DeleteDeleteOne(h) ==
  LET c == calls[h] IN
    /\ c.op = "delete" /\ c.pc = "deleteOne"
    /\ requests' = [requests EXCEPT ![c.id] = NoDoc]
    /\ Respond(h, c, 200, Absent)
    /\ UNCHANGED <<users, nextId, nops, blogs, nextBlogId>>

\* ---------------------------------------------------- POST /donation-requests
\* the blocked check applied to donors only
CreateForbiddenDonorOnly(user) == user.status = "blocked" /\ user.role = "donor"

\* user?.status === "blocked"
CreateForbidden(user) == user.status = "blocked"

\* handlers that passed the blocked check and have not inserted yet
PendingInserts == {k \in CallIds : calls[k].op = "create" /\ calls[k].pc = "insertOne"}

CreateFindUser(h) ==
  \E email \in Emails :
    LET user == FindUser(email)
        c == [Idle EXCEPT !.op = "create", !.email = email]
    IN /\ Begin(h)
       /\ nextId + Cardinality(PendingInserts) <= MaxRequests
       /\ IF CreateForbidden(user) THEN Respond(h, c, 403, Absent)
          ELSE Goto(h, c, "insertOne")
       /\ UNCHANGED <<users, requests, nextId, blogs, nextBlogId>>

\* newRequest = req.body is read here, after the blocked check
CreateInsertOne(h) ==
  \E newRequest \in CreateBodies :
    LET c == calls[h] IN
      /\ c.op = "create" /\ c.pc = "insertOne"
      /\ requests' = [requests EXCEPT ![nextId] = NewRequest(newRequest)]
      /\ nextId' = nextId + 1
      /\ Respond(h, [c EXCEPT !.id = nextId, !.body = newRequest], 201, Absent)
      /\ UNCHANGED <<users, nops, blogs, nextBlogId>>

\* ------------------------------------------------ verifyAdmin and its routes
\* verifyAdmin, the outcomes it can have: 0 runs the route handler, 403
\* answers.  user.role of a missing user throws inside the async middleware:
\* the rejected promise is handled by nobody and the request gets no answer
\* (-1), or the framework's error handler answers 500, as the Express release
\* in use has it.
VerifyAdmin(user) ==
  IF ~user.exists THEN {-1, 500}
  ELSE IF user.role = "admin" THEN {0} ELSE {403}

\* !status || !["active", "blocked"].includes(status)
InvalidStatus(status) == ~Truthy(status) \/ status \notin UserStatuses

\* !role || !["donor", "volunteer", "admin"].includes(role)
InvalidRole(role) == ~Truthy(role) \/ role \notin Roles

\* the user documents an :id can name
UserIds == {e \in Emails : users[e].exists}

\* the route handler reads req.params.id and req.body once verifyAdmin let it run
UserStatusVerifyAdmin(h) ==
  \E email \in Emails :
    LET m == [Idle EXCEPT !.op = "userStatus", !.email = email]
    IN /\ Begin(h)
       /\ \E r \in VerifyAdmin(FindUser(email)) :
          IF r # 0 THEN Respond(h, m, r, Absent)
          ELSE \E id \in UserIds, body \in UserStatusBodies :
                 LET c == [m EXCEPT !.userId = id, !.body = body] IN
                   IF InvalidStatus(body.status) THEN Respond(h, c, 400, Absent)
                   ELSE Goto(h, c, "updateOne")
       /\ UNCHANGED <<users, requests, nextId, blogs, nextBlogId>>

UserStatusUpdateOne(h) ==
  LET c == calls[h] IN
    /\ c.op = "userStatus" /\ c.pc = "updateOne"
    /\ users' = [users EXCEPT ![c.userId].status = c.body.status]
    /\ Respond(h, c, 200, Absent)
    /\ UNCHANGED <<requests, nextId, nops, blogs, nextBlogId>>

UserRoleVerifyAdmin(h) ==
  \E email \in Emails :
    LET m == [Idle EXCEPT !.op = "userRole", !.email = email]
    IN /\ Begin(h)
       /\ \E r \in VerifyAdmin(FindUser(email)) :
          IF r # 0 THEN Respond(h, m, r, Absent)
          ELSE \E id \in UserIds, body \in UserRoleBodies :
                 LET c == [m EXCEPT !.userId = id, !.body = body] IN
                   IF InvalidRole(body.role) THEN Respond(h, c, 400, Absent)
                   ELSE Goto(h, c, "updateOne")
       /\ UNCHANGED <<users, requests, nextId, blogs, nextBlogId>>

UserRoleUpdateOne(h) ==
  LET c == calls[h] IN
    /\ c.op = "userRole" /\ c.pc = "updateOne"
    /\ users' = [users EXCEPT ![c.userId].role = c.body.role]
    /\ Respond(h, c, 200, Absent)
    /\ UNCHANGED <<requests, nextId, nops, blogs, nextBlogId>>

\* ------------------------------------------ POST /add-user, PATCH /users/:email
\* updateOne(filter, { $set: data }) on a user document
SetUser(doc, data) ==
  IF ~doc.exists THEN doc
  ELSE [k \in DOMAIN doc |-> IF k \in DOMAIN data THEN data[k] ELSE doc[k]]

\* /add-user sends the profile the client holds: an email or none, a name or
\* none, and any role
AddUserBodies ==
  {[NoBody EXCEPT !.name = n, !.role = r] : n \in {Absent, "N"}, r \in {Absent, "admin"}}

\* if (userData.name) dataToUpdate.name = userData.name
DataToUpdate(userData) ==
  IF Truthy(userData.name) THEN [name |-> userData.name] ELSE <<>>

\* newUser = { ...userData, phoneNumber, status: "active", loginCount: 1 }
NewUser(userData) ==
  [exists |-> TRUE, role |-> userData.role, status |-> "active",
   name |-> userData.name, loginCount |-> 1, copies |-> 1]

\* the route has no verifyFirebaseToken: the email is the one in the body
AddUserFindOne(h) ==
  \E email \in Emails \cup {Absent} :
    LET c == [Idle EXCEPT !.op = "addUser", !.userId = email]
    IN /\ Begin(h)
       /\ IF ~Truthy(email) THEN Respond(h, c, 400, Absent)
          ELSE IF FindUser(email).exists THEN Goto(h, c, "updateOne")
          ELSE Goto(h, c, "insertOne")
       /\ UNCHANGED <<users, requests, nextId, blogs, nextBlogId>>

\* the $inc left out of the update
IncLoginCountLeftOut(doc) == doc

\* $inc: { loginCount: 1 }, applied by the database within the one updateOne
IncLoginCount(doc) == [doc EXCEPT !.loginCount = @ + 1]

\* find_result was a document: $set dataToUpdate, $inc loginCount
AddUserUpdateOne(h) ==
  \E userData \in AddUserBodies :
    LET c == calls[h]
        set == SetUser(users[c.userId], DataToUpdate(userData))
    IN /\ c.op = "addUser" /\ c.pc = "updateOne"
       /\ users' = [users EXCEPT ![c.userId] = IncLoginCount(set)]
       /\ Respond(h, [c EXCEPT !.body = userData], 200, Absent)
       /\ UNCHANGED <<requests, nextId, nops, blogs, nextBlogId>>

\* find_result was null: insertOne(newUser), whatever the collection holds by now
AddUserInsertOne(h) ==
  \E userData \in AddUserBodies :
    LET c == calls[h]
    IN /\ c.op = "addUser" /\ c.pc = "insertOne"
       /\ users' = [users EXCEPT ![c.userId] =
                      IF @.exists THEN [@ EXCEPT !.copies = @ + 1]
                      ELSE NewUser(userData)]
       /\ Respond(h, [c EXCEPT !.body = userData], 200, Absent)
       /\ UNCHANGED <<requests, nextId, nops, blogs, nextBlogId>>

\* PATCH /users/:email sends profile fields, and whatever else the client adds
PatchUserBodies ==
  {[NoBody EXCEPT !.name = n, !.role = r, !.status = s] :
     n \in {Absent, "N"}, r \in {Absent, "admin"}, s \in {Absent, "active"}}

\* role taken from the body along with the profile fields
UpdatedDataWithRole(body) == [name |-> body.name, role |-> body.role]

\* updatedData = { name, photoURL, bloodGroup, district, upazila, phoneNumber }
UpdatedData(body) == [name |-> body.name]

\* PATCH /users/:email
PatchUser(h) ==
  \E email \in Emails, requestedEmail \in Emails, body \in PatchUserBodies :
    LET c == [Idle EXCEPT !.op = "patchUser", !.email = email,
                          !.userId = requestedEmail, !.body = body]
    IN /\ Begin(h)
       /\ IF email # requestedEmail
          THEN Respond(h, c, 403, Absent) /\ users' = users
          ELSE /\ users' = [users EXCEPT ![requestedEmail] =
                              SetUser(@, UpdatedData(body))]
               /\ Respond(h, c, 200, Absent)
       /\ UNCHANGED <<requests, nextId, blogs, nextBlogId>>

\* ----------------------------------------------------------- the read routes
\* createdAt values a client sends with a new request, oldest first
Times == <<"t1", "t2">>

\* the place of a createdAt in the sort order; a missing createdAt sorts as
\* null, below every date
CreatedAtRank(t) ==
  IF \E i \in DOMAIN Times : Times[i] = t
  THEN CHOOSE i \in DOMAIN Times : Times[i] = t
  ELSE 0

\* req.query.status and req.query.limit as a client can send them
QueryStatuses == {Absent, "", "all", "pending"}
QueryLimits   == {Absent, "0", "1", "-1"}

\* parseInt(x): NaN or an integer
NaN    == [nan |-> TRUE, n |-> 0]
Num(n) == [nan |-> FALSE, n |-> n]
ParseInt(x) ==
  CASE x = "0"  -> Num(0)
    [] x = "1"  -> Num(1)
    [] x = "2"  -> Num(2)
    [] x = "-1" -> Num(-1)
    [] OTHER    -> NaN

\* p || 0: NaN and 0 are falsy
OrZero(p) == IF p.nan \/ p.n = 0 THEN 0 ELSE p.n

\* the requesterEmail key left out of the query
ListMineQueryNoEmail(email, status) ==
  [requesterEmail |-> Absent,
   status |-> IF Truthy(status) /\ status # "all" THEN status ELSE Absent]

\* query = { requesterEmail }; if (status && status !== "all") query.status = status
ListMineQuery(email, status) ==
  [requesterEmail |-> email,
   status |-> IF Truthy(status) /\ status # "all" THEN status ELSE Absent]

\* query = {}; if (status && status !== "all") query.status = status
ListAllQuery(status) ==
  [requesterEmail |-> Absent,
   status |-> IF Truthy(status) /\ status # "all" THEN status ELSE Absent]

\* find(query): the _ids of the documents equal to the query on each of its keys
Find(query) ==
  {i \in Ids : /\ requests[i].exists
               /\ \A k \in DOMAIN query :
                    query[k] # Absent => requests[i][k] = query[k]}

\* .sort({ createdAt: -1 }): the orders the cursor can deliver, newest first;
\* documents of equal createdAt come in any order
Sort(found) ==
  {list \in [1..Cardinality(found) -> found] :
     /\ \A i, j \in DOMAIN list : i # j => list[i] # list[j]
     /\ \A i, j \in DOMAIN list :
          i < j => CreatedAtRank(requests[list[i]].createdAt)
                     >= CreatedAtRank(requests[list[j]].createdAt)}

\* if (limit > 0) cursor.limit(limit)
Limit(list, limit) ==
  IF limit > 0 /\ limit < Len(list) THEN SubSeq(list, 1, limit) ELSE list

\* GET /donation-requests/my-requests
ListMine(h) ==
  \E email \in Emails, status \in QueryStatuses, limit \in QueryLimits :
    LET c == [Idle EXCEPT !.op = "listMine", !.email = email,
                          !.query = [status |-> status, limit |-> limit]]
    IN /\ Begin(h)
       /\ \E list \in Sort(Find(ListMineQuery(email, status))) :
            Respond(h, [c EXCEPT !.list = Limit(list, OrZero(ParseInt(limit)))],
                    200, Absent)
       /\ UNCHANGED <<users, requests, nextId, blogs, nextBlogId>>

\* verifyAdminOrVolunteer: user?.role === "admin" || user?.role === "volunteer"
VerifyAdminOrVolunteer(user) ==
  IF user.role \in {"admin", "volunteer"} THEN 0 ELSE 403

\* GET /donation-requests, the middleware
ListAllVerify(h) ==
  \E email \in Emails :
    LET c == [Idle EXCEPT !.op = "listAll", !.email = email]
        r == VerifyAdminOrVolunteer(FindUser(email))
    IN /\ Begin(h)
       /\ IF r # 0 THEN Respond(h, c, r, Absent) ELSE Goto(h, c, "find")
       /\ UNCHANGED <<users, requests, nextId, blogs, nextBlogId>>

\* GET /donation-requests, the route handler
ListAllFind(h) ==
  \E status \in QueryStatuses :
    LET c == [calls[h] EXCEPT !.query = [status |-> status, limit |-> Absent]]
    IN /\ calls[h].op = "listAll" /\ calls[h].pc = "find"
       /\ \E list \in Sort(Find(ListAllQuery(status))) :
            Respond(h, [c EXCEPT !.list = list], 200, Absent)
       /\ UNCHANGED <<users, requests, nextId, nops, blogs, nextBlogId>>

\* GET /donation-requests/:id; new ObjectId(id) throws on a malformed id
\* (500).  The handler does not read the caller's email.
GetRequest(h) ==
  \E id \in PathIds :
    LET c == [Idle EXCEPT !.op = "get", !.id = id]
    IN /\ Begin(h)
       /\ IF ~ObjectIdIsValid(id) THEN Respond(h, c, 500, Absent)
          ELSE IF ~FindRequest(id).exists THEN Respond(h, c, 404, Absent)
          ELSE Respond(h, [c EXCEPT !.list = <<id>>], 200, Absent)
       /\ UNCHANGED <<users, requests, nextId, blogs, nextBlogId>>

\* ---------------------------------------------------------- the blog routes
\* POST /blogs sends a title and, if the client likes, a status
CreateBlogBodies ==
  {[NoBody EXCEPT !.title = "T2", !.status = s] : s \in {Absent, "published"}}

\* newBlog.status = "draft" (newBlog.createdAt = new Date() is not modelled:
\* no route modelled here reads it)
NewBlog(newBlog) == [exists |-> TRUE, status |-> "draft", title |-> newBlog.title]

\* handlers that passed verifyAdminOrVolunteer and have not inserted yet
PendingBlogInserts ==
  {k \in CallIds : calls[k].op = "createBlog" /\ calls[k].pc = "insertOne"}

\* POST /blogs, the middleware
CreateBlogVerify(h) ==
  \E email \in Emails :
    LET c == [Idle EXCEPT !.op = "createBlog", !.email = email]
        r == VerifyAdminOrVolunteer(FindUser(email))
    IN /\ Begin(h)
       /\ nextBlogId + Cardinality(PendingBlogInserts) <= MaxBlogs
       /\ IF r # 0 THEN Respond(h, c, r, Absent) ELSE Goto(h, c, "insertOne")
       /\ UNCHANGED <<users, requests, nextId, blogs, nextBlogId>>

\* POST /blogs, the route handler
CreateBlogInsertOne(h) ==
  \E newBlog \in CreateBlogBodies :
    LET c == calls[h] IN
      /\ c.op = "createBlog" /\ c.pc = "insertOne"
      /\ blogs' = [blogs EXCEPT ![nextBlogId] = NewBlog(newBlog)]
      /\ nextBlogId' = nextBlogId + 1
      /\ Respond(h, [c EXCEPT !.id = nextBlogId, !.body = newBlog], 201, Absent)
      /\ UNCHANGED <<users, requests, nextId, nops>>

\* the :id of a blog route
BlogPathIds == BlogIds \cup {BadId}

\* PATCH /blogs/:id sends title, thumbnail, content, and whatever else
EditBlogBodies ==
  {[NoBody EXCEPT !.title = "T3", !.status = s] : s \in {Absent, "draft", "published"}}

\* $set of the whole body
EditBlogUpdateDocWholeBody(updatedData) ==
  IF updatedData.status # Absent
  THEN [title |-> updatedData.title, status |-> updatedData.status]
  ELSE [title |-> updatedData.title]

\* updateDoc = { $set: { title, thumbnail, content } }
EditBlogUpdateDoc(updatedData) == [title |-> updatedData.title]

\* blogCollection.updateOne({ _id }, { $set: fields })
SetBlog(doc, fields) ==
  IF ~doc.exists THEN doc
  ELSE [k \in DOMAIN doc |-> IF k \in DOMAIN fields THEN fields[k] ELSE doc[k]]

\* PATCH /blogs/:id, the middleware and the id check of the handler
EditBlogVerify(h) ==
  \E email \in Emails :
    LET m == [Idle EXCEPT !.op = "editBlog", !.email = email]
        r == VerifyAdminOrVolunteer(FindUser(email))
    IN /\ Begin(h)
       /\ IF r # 0 THEN Respond(h, m, r, Absent)
          ELSE \E id \in BlogPathIds :
                 LET c == [m EXCEPT !.id = id] IN
                   IF ~ObjectIdIsValid(id) THEN Respond(h, c, 400, Absent)
                   ELSE Goto(h, c, "updateOne")
       /\ UNCHANGED <<users, requests, nextId, blogs, nextBlogId>>

EditBlogUpdateOne(h) ==
  \E updatedData \in EditBlogBodies :
    LET c == calls[h] IN
      /\ c.op = "editBlog" /\ c.pc = "updateOne"
      /\ blogs' = [blogs EXCEPT ![c.id] = SetBlog(@, EditBlogUpdateDoc(updatedData))]
      /\ Respond(h, [c EXCEPT !.body = updatedData], 200, Absent)
      /\ UNCHANGED <<users, requests, nextId, nops, nextBlogId>>

\* PATCH /blogs/status/:id sends { status }
BlogStatusBodies ==
  {[NoBody EXCEPT !.status = s] : s \in BlogStatuses \cup {"bogus"}}

\* !status || !["draft", "published"].includes(status)
InvalidBlogStatus(status) == ~Truthy(status) \/ status \notin BlogStatuses

\* PATCH /blogs/status/:id, verifyAdmin and the checks of the handler
BlogStatusVerifyAdmin(h) ==
  \E email \in Emails :
    LET m == [Idle EXCEPT !.op = "blogStatus", !.email = email]
    IN /\ Begin(h)
       /\ \E r \in VerifyAdmin(FindUser(email)) :
          IF r # 0 THEN Respond(h, m, r, Absent)
          ELSE \E id \in BlogPathIds, body \in BlogStatusBodies :
                 LET c == [m EXCEPT !.id = id, !.body = body] IN
                   IF InvalidBlogStatus(body.status) THEN Respond(h, c, 400, Absent)
                   ELSE IF ~ObjectIdIsValid(id) THEN Respond(h, c, 500, Absent)
                   ELSE Goto(h, c, "updateOne")
       /\ UNCHANGED <<users, requests, nextId, blogs, nextBlogId>>

BlogStatusUpdateOne(h) ==
  LET c == calls[h] IN
    /\ c.op = "blogStatus" /\ c.pc = "updateOne"
    /\ blogs' = [blogs EXCEPT ![c.id] = SetBlog(@, [status |-> c.body.status])]
    /\ Respond(h, c, 200, Absent)
    /\ UNCHANGED <<users, requests, nextId, nops, nextBlogId>>

\* DELETE /blogs/:id, verifyAdmin and new ObjectId(id)
DeleteBlogVerifyAdmin(h) ==
  \E email \in Emails :
    LET m == [Idle EXCEPT !.op = "deleteBlog", !.email = email]
    IN /\ Begin(h)
       /\ \E r \in VerifyAdmin(FindUser(email)) :
          IF r # 0 THEN Respond(h, m, r, Absent)
          ELSE \E id \in BlogPathIds :
                 LET c == [m EXCEPT !.id = id] IN
                   IF ~ObjectIdIsValid(id) THEN Respond(h, c, 500, Absent)
                   ELSE Goto(h, c, "deleteOne")
       /\ UNCHANGED <<users, requests, nextId, blogs, nextBlogId>>

DeleteBlogDeleteOne(h) ==
  LET c == calls[h] IN
    /\ c.op = "deleteBlog" /\ c.pc = "deleteOne"
    /\ blogs' = [blogs EXCEPT ![c.id] = NoBlog]
    /\ Respond(h, c, 200, Absent)
    /\ UNCHANGED <<users, requests, nextId, nops, nextBlogId>>

\* ------------------------------------------------------------ specification
Next ==
  \E h \in CallIds :
    \/ ConfirmFindOne(h)
    \/ ConfirmUpdateOne(h)
    \/ UpdateFindRequest(h)
    \/ UpdateFindRequester(h)
    \/ UpdateUpdateOne(h)
    \/ DeleteFindRequest(h)
    \/ DeleteFindRequester(h)
    \/ DeleteDeleteOne(h)
    \/ CreateFindUser(h)
    \/ CreateInsertOne(h)
    \/ UserStatusVerifyAdmin(h)
    \/ UserStatusUpdateOne(h)
    \/ UserRoleVerifyAdmin(h)
    \/ UserRoleUpdateOne(h)

Spec == Init /\ [][Next]_vars

\* The read routes, on any collection of requests that Create calls can have
\* left: each _id free or holding a request of donor a, of any status and
\* createdAt (insertOne stores these keys as the client sent them), or a
\* pending request of volunteer b.
StoredRequests ==
  {NoDoc} \cup
  {NewRequest([NoBody EXCEPT !.requesterEmail = "a", !.status = s,
                             !.recipientName = "R", !.createdAt = t]) :
     s \in {"pending", "done"},
     t \in {Times[i] : i \in DOMAIN Times} \cup {Absent}} \cup
  {NewRequest([NoBody EXCEPT !.requesterEmail = "b", !.status = "pending",
                             !.recipientName = "R", !.createdAt = "t1"])}

InitRead ==
  /\ users = InitUsers
  /\ requests \in [Ids -> StoredRequests]
  /\ nextId = MaxRequests + 1
  /\ calls = [h \in CallIds |-> Idle]
  /\ nops = 0
  /\ blogs = InitBlogs
  /\ nextBlogId = 2

NextRead ==
  \E h \in CallIds :
    \/ ListMine(h)
    \/ ListAllVerify(h)
    \/ ListAllFind(h)
    \/ GetRequest(h)

SpecRead == InitRead /\ [][NextRead]_vars

\* The routes that write the users collection.
NextUsers ==
  \E h \in CallIds :
    \/ AddUserFindOne(h)
    \/ AddUserUpdateOne(h)
    \/ AddUserInsertOne(h)
    \/ PatchUser(h)
    \/ UserStatusVerifyAdmin(h)
    \/ UserStatusUpdateOne(h)
    \/ UserRoleVerifyAdmin(h)
    \/ UserRoleUpdateOne(h)

SpecUsers == Init /\ [][NextUsers]_vars

\* The routes that write the blogs collection.
NextBlogs ==
  \E h \in CallIds :
    \/ CreateBlogVerify(h)
    \/ CreateBlogInsertOne(h)
    \/ EditBlogVerify(h)
    \/ EditBlogUpdateOne(h)
    \/ BlogStatusVerifyAdmin(h)
    \/ BlogStatusUpdateOne(h)
    \/ DeleteBlogVerifyAdmin(h)
    \/ DeleteBlogDeleteOne(h)

SpecBlogs == Init /\ [][NextBlogs]_vars


\* ------------------------------------------------------------------ claims
\* the slot an arriving request takes
FirstFree == CHOOSE h \in CallIds :
               Free(h) /\ \A k \in CallIds : Free(k) => SlotNo(h) <= SlotNo(k)

\* this step is the first step of a handler of route op, in slot h
Arrives(h, op) ==
  /\ nops' = nops + 1
  /\ \E k \in CallIds : Free(k)
  /\ h = FirstFree
  /\ calls'[h].op = op

\* this step takes the handler in slot h from pc to its next await or its answer
Steps(h, op, pc) ==
  /\ calls[h].op = op
  /\ calls[h].pc = pc
  /\ calls'[h].pc # pc

Answered(c, code) == c.pc = "done" /\ c.code = code

\* C1: two Confirm calls by different callers that overlap on one pending
\* request never both get a success response.
C1_AtMostOneConfirmSucceeds ==
  \A h, k \in CallIds :
    ( /\ h # k
      /\ calls[h].op = "confirm" /\ calls[k].op = "confirm"
      /\ calls[h].id = calls[k].id
      /\ calls[h].email # calls[k].email
      /\ Answered(calls[h], 200) )
    => ~Answered(calls[k], 200)

\* C2: a Confirm that arrives when the request is already inprogress is
\* answered 400 with a message naming the status inprogress, and the
\* request (donorName and donorEmail included) stays as it is.
C2_SecondConfirmFails ==
  [][\A h \in CallIds :
       ( /\ Arrives(h, "confirm")
         /\ calls'[h].id \in Ids
         /\ requests[calls'[h].id].exists
         /\ requests[calls'[h].id].status = "inprogress" )
       => /\ Answered(calls'[h], 400)
          /\ calls'[h].msg = "inprogress"
          /\ requests' = requests]_vars

\* a second Confirm was refused on a request that holds the first one's donor
C2_Witness ==
  \E h \in CallIds :
    /\ calls[h].op = "confirm"
    /\ Answered(calls[h], 400)
    /\ calls[h].msg = "inprogress"
    /\ requests[calls[h].id].status = "inprogress"
    /\ requests[calls[h].id].donorEmail \in Emails

\* C3: a Confirm of a pending request by the caller whose email is the
\* request's requesterEmail is answered 403 whatever the caller's role, and
\* the request stays as it is.
C3_SelfConfirmForbidden ==
  [][\A h \in CallIds :
       ( /\ Arrives(h, "confirm")
         /\ calls'[h].id \in Ids
         /\ requests[calls'[h].id].exists
         /\ requests[calls'[h].id].status = "pending"
         /\ requests[calls'[h].id].requesterEmail = calls'[h].email )
       => /\ Answered(calls'[h], 403)
          /\ requests' = requests]_vars

\* an admin or volunteer was refused the Confirm of their own pending request
C3_Witness ==
  \E h \in CallIds :
    /\ calls[h].op = "confirm"
    /\ Answered(calls[h], 403)
    /\ users[calls[h].email].role \in {"admin", "volunteer"}
    /\ requests[calls[h].id].status = "pending"
    /\ requests[calls[h].id].requesterEmail = calls[h].email
    /\ requests[calls[h].id].donorEmail = Absent

\* a body that holds the status key and nothing else
HoldsOnlyStatus(body) == ObjectKeys(body) = {"status"}

\* a body that holds the status key and more
HoldsMoreThanStatus(body) ==
  "status" \in ObjectKeys(body) /\ ObjectKeys(body) # {"status"}

\* the caller of the update or delete in slot h is the requester of the
\* request the handler read
IsRequester(h) == calls[h].request.requesterEmail = calls[h].email

\* the role stored for the caller of the handler in slot h
StoredRole(h) == users[calls[h].email].role

\* the authorization step of an update or delete lets the handler go on to
\* its write, or answers 403 and leaves the requests alone
GoesOn(h, pc) == calls'[h].pc = pc /\ requests' = requests
Refused(h) == Answered(calls'[h], 403) /\ requests' = requests

\* the write of an update is answered 200 and stores the body's keys
UpdateWritten(h) ==
  Steps(h, "update", "updateOne")
  => /\ Answered(calls'[h], 200)
     /\ requests[calls[h].id].exists
        => /\ requests'[calls[h].id].exists
           /\ \A k \in {"status", "recipientName"} :
                requests'[calls[h].id][k] =
                  IF calls[h].body[k] # Absent THEN calls[h].body[k]
                  ELSE requests[calls[h].id][k]

\* C4 as stated: an update whose body holds exactly the status key succeeds
\* for the requester, an admin or a volunteer, and is answered 403 with the
\* request unchanged for every other caller.
C4_StatusOnlyAnyValue ==
  [][\A h \in CallIds :
       /\ ( Steps(h, "update", "findRequester") /\ HoldsOnlyStatus(calls'[h].body) )
          => IF IsRequester(h) \/ StoredRole(h) \in {"admin", "volunteer"}
             THEN GoesOn(h, "updateOne")
             ELSE Refused(h)
       /\ UpdateWritten(h)]_vars

\* C4 amended: an update whose body holds exactly the status key succeeds
\* for the requester and for an admin, and for a volunteer when the status
\* sent is not empty; it is answered 403 with the request unchanged for
\* every other caller, and for a volunteer who sends an empty status.
C4_StatusOnlyUpdate ==
  [][\A h \in CallIds :
       /\ ( Steps(h, "update", "findRequester") /\ HoldsOnlyStatus(calls'[h].body) )
          => IF \/ IsRequester(h)
                \/ StoredRole(h) = "admin"
                \/ StoredRole(h) = "volunteer" /\ calls'[h].body.status # ""
             THEN GoesOn(h, "updateOne")
             ELSE Refused(h)
       /\ UpdateWritten(h)]_vars

\* a volunteer's status-only update of someone else's request was stored
C4_Witness ==
  \E h \in CallIds :
    /\ calls[h].op = "update"
    /\ Answered(calls[h], 200)
    /\ HoldsOnlyStatus(calls[h].body)
    /\ users[calls[h].email].role = "volunteer"
    /\ requests[calls[h].id].requesterEmail # calls[h].email
    /\ requests[calls[h].id].status = calls[h].body.status

\* C5: an update of someone else's request whose body holds more than the
\* status key is answered 403 and changes nothing when the caller is a
\* volunteer, and succeeds when the caller is an admin; the volunteer's
\* { status: "done" } succeeds.
C5_FullEditVolunteerForbidden ==
  [][\A h \in CallIds :
       /\ ( /\ Steps(h, "update", "findRequester")
            /\ ~IsRequester(h)
            /\ HoldsMoreThanStatus(calls'[h].body) )
          => /\ StoredRole(h) = "volunteer" => Refused(h)
             /\ StoredRole(h) = "admin" => GoesOn(h, "updateOne")
       /\ ( /\ Steps(h, "update", "findRequester")
            /\ ~IsRequester(h)
            /\ calls'[h].body = [NoBody EXCEPT !.status = "done"]
            /\ StoredRole(h) = "volunteer" )
          => GoesOn(h, "updateOne")
       /\ UpdateWritten(h)]_vars

\* a volunteer's { status: "done", recipientName: "X" } on someone else's
\* request was refused and the request holds neither value
C5_Witness ==
  \E h \in CallIds :
    /\ calls[h].op = "update"
    /\ Answered(calls[h], 403)
    /\ calls[h].body = [NoBody EXCEPT !.status = "done", !.recipientName = "X"]
    /\ users[calls[h].email].role = "volunteer"
    /\ requests[calls[h].id].requesterEmail # calls[h].email
    /\ requests[calls[h].id].status = "pending"
    /\ requests[calls[h].id].recipientName = "R"

\* C6: a Delete of an existing request is answered 403, the record left in
\* place, when the caller is not the requester and not an admin (a
\* volunteer, a donor); it removes the record when the caller is the
\* requester or an admin.
C6_DeleteOwnerOrAdmin ==
  [][\A h \in CallIds :
       /\ Steps(h, "delete", "findRequester")
          => IF IsRequester(h) \/ StoredRole(h) = "admin"
             THEN GoesOn(h, "deleteOne")
             ELSE Refused(h)
       /\ Steps(h, "delete", "deleteOne")
          => /\ Answered(calls'[h], 200)
             /\ ~requests'[calls[h].id].exists]_vars

\* a volunteer was refused the Delete of someone else's request, which is
\* still stored
C6_Witness ==
  \E h \in CallIds :
    /\ calls[h].op = "delete"
    /\ Answered(calls[h], 403)
    /\ users[calls[h].email].role = "volunteer"
    /\ requests[calls[h].id].exists
    /\ requests[calls[h].id].requesterEmail # calls[h].email

\* C7: a Create by a caller whose stored status is blocked is answered 403
\* whatever the caller's role, and no record is inserted.
C7_BlockedCreateForbidden ==
  [][\A h \in CallIds :
       ( Arrives(h, "create") /\ users[calls'[h].email].status = "blocked" )
       => /\ Answered(calls'[h], 403)
          /\ requests' = requests
          /\ nextId' = nextId]_vars

\* a blocked admin's or volunteer's Create was refused
C7_Witness ==
  \E h \in CallIds :
    /\ calls[h].op = "create"
    /\ Answered(calls[h], 403)
    /\ users[calls[h].email].status = "blocked"
    /\ users[calls[h].email].role \in {"admin", "volunteer"}
    /\ \A i \in Ids : i >= nextId => ~requests[i].exists

\* C8: every authorization decision is taken on the role and status stored
\* for the caller when the handler reads them: a Create is refused exactly
\* when the stored status is blocked, an update or delete of someone else's
\* request and an admin-only route exactly when the stored role does not
\* allow it.
C8_DecidedByStoredUser ==
  [][\A h \in CallIds :
       /\ Arrives(h, "create")
          => ( Answered(calls'[h], 403) <=> users[calls'[h].email].status = "blocked" )
       /\ ( Steps(h, "update", "findRequester") /\ ~IsRequester(h) )
          => ( Answered(calls'[h], 403)
               <=> ~ \/ StoredRole(h) = "admin"
                     \/ /\ StoredRole(h) = "volunteer"
                        /\ HoldsOnlyStatus(calls'[h].body)
                        /\ calls'[h].body.status # "" )
       /\ ( Steps(h, "delete", "findRequester") /\ ~IsRequester(h) )
          => ( Answered(calls'[h], 403) <=> StoredRole(h) # "admin" )
       /\ ( /\ Arrives(h, "userStatus") \/ Arrives(h, "userRole")
            /\ users[calls'[h].email].exists )
          => ( Answered(calls'[h], 403) <=> users[calls'[h].email].role # "admin" )]_vars

\* a user who was blocked when the server started is active now, and the
\* user's Create was answered 201
C8_Witness ==
  \E h \in CallIds :
    /\ calls[h].op = "create"
    /\ Answered(calls[h], 201)
    /\ InitUsers[calls[h].email].status = "blocked"
    /\ users[calls[h].email].status = "active"
    /\ requests[calls[h].id].exists

\* C9: the record a successful Create inserts has status pending.
C9_CreatedPending ==
  [][\A h \in CallIds :
       Steps(h, "create", "insertOne")
       => /\ Answered(calls'[h], 201)
          /\ requests'[calls'[h].id].status = "pending"]_vars

\* C10: a stored request whose status is done or canceled keeps that status
\* in every step.
C10_TerminalStatusKept ==
  [][\A i \in Ids :
       ( /\ requests[i].exists
         /\ requests[i].status \in {"done", "canceled"}
         /\ requests'[i].exists )
       => requests'[i].status = requests[i].status]_vars

\* C11: every stored request whose status is inprogress holds a donor name
\* and a donor email.
C11_InprogressHasDonor ==
  \A i \in Ids :
    ( requests[i].exists /\ requests[i].status = "inprogress" )
    => /\ requests[i].donorName # Absent
       /\ requests[i].donorEmail # Absent

\* C12: the requesterEmail of a stored request is the same after every step.
C12_RequesterEmailKept ==
  [][\A i \in Ids :
       ( requests[i].exists /\ requests'[i].exists )
       => requests'[i].requesterEmail = requests[i].requesterEmail]_vars

\* C13: a Confirm, update, Delete or single-request GET whose :id is not
\* well-formed is answered 400 and touches no collection.
C13_MalformedIdAnswers400 ==
  [][\A h \in CallIds :
       ( /\ \/ Arrives(h, "confirm") \/ Arrives(h, "update")
            \/ Arrives(h, "delete") \/ Arrives(h, "get")
         /\ calls'[h].id = BadId )
       => /\ Answered(calls'[h], 400)
          /\ UNCHANGED <<users, requests, nextId>>]_vars

\* C14: a Confirm answers with its first failing check, in the order: no such
\* request (404), status other than pending (400, the message naming the stored
\* status), own request (403); so the requester confirming their own request
\* that is not pending is told its status.
C14_ConfirmCheckOrder ==
  [][\A h \in CallIds :
       ( Arrives(h, "confirm") /\ calls'[h].id \in Ids )
       => LET request == requests[calls'[h].id]
              c == calls'[h]
          IN /\ ~request.exists => Answered(c, 404)
             /\ ( request.exists /\ request.status # "pending" )
                => Answered(c, 400) /\ c.msg = request.status
             /\ ( /\ request.exists /\ request.status = "pending"
                  /\ request.requesterEmail = c.email )
                => Answered(c, 403)
             /\ ( /\ request.exists /\ request.status = "pending"
                  /\ request.requesterEmail # c.email )
                => c.pc = "updateOne"]_vars

\* the requester confirmed their own request, which was not pending, and was
\* answered 400 with its status
C14_Witness ==
  \E h \in CallIds :
    /\ calls[h].op = "confirm"
    /\ Answered(calls[h], 400)
    /\ requests[calls[h].id].exists
    /\ requests[calls[h].id].requesterEmail = calls[h].email
    /\ calls[h].msg = requests[calls[h].id].status

\* C19: the status of every stored request is one of pending, inprogress,
\* done, canceled.
C19_StatusInEnum ==
  \A i \in Ids : requests[i].exists => requests[i].status \in Statuses

\* C18: a role-gated route called by a principal who has no user document, or
\* whose stored role the gate does not allow, is answered 403 and the gated
\* handler does not run.
C18_GateAnswersForbidden ==
  [][\A h \in CallIds :
       LET role == users[calls'[h].email].role IN
         /\ ( /\ Arrives(h, "userStatus") \/ Arrives(h, "userRole")
              /\ role # "admin" )
            => Answered(calls'[h], 403) /\ users' = users
         /\ ( /\ Arrives(h, "listAll")
              /\ role \notin {"admin", "volunteer"} )
            => Answered(calls'[h], 403)]_vars

\* the handler in slot h takes this step
Moves(h) ==
  \/ \E op \in {"confirm", "update", "delete", "create"} : Arrives(h, op)
  \/ /\ calls[h].op \in {"confirm", "update", "delete", "create"}
     /\ calls[h].pc \notin {"idle", "done"}
     /\ calls'[h] # calls[h]

\* C16: a step in which Confirm, update, Delete or Create answers 400, 403 or
\* 404 leaves users and requests as they are, and a step of one of these
\* handlers that changes the store is the one that answers 200 or 201 (so a
\* handler that fails has written nothing before).
C16_FailureWritesNothing ==
  [][\A h \in CallIds :
       Moves(h)
       => /\ ( calls'[h].pc = "done" /\ calls'[h].code \in {400, 403, 404} )
             => UNCHANGED <<users, requests, nextId>>
          /\ <<users, requests, nextId>>' # <<users, requests, nextId>>
             => calls'[h].pc = "done" /\ calls'[h].code \in {200, 201}]_vars

\* the second of two calls, a Delete, was answered 403 and the users and the
\* pending request it named are still stored
C16_Witness ==
  \E h \in CallIds :
    /\ calls[h].op = "delete"
    /\ Answered(calls[h], 403)
    /\ users = InitUsers
    /\ requests[calls[h].id].exists
    /\ requests[calls[h].id].status = "pending"
    /\ nops = MaxOps

\* the requests of the caller of c that c's status filter lets through
Mine(c) ==
  {i \in Ids :
     /\ requests[i].exists
     /\ requests[i].requesterEmail = c.email
     /\ ( c.query.status \notin {Absent, "", "all"} )
        => requests[i].status = c.query.status}

\* C15: my-requests answers with requests of the caller only, of the status
\* asked for when one other than "all" is given, none twice, newest createdAt
\* first; at most N of them with limit N > 0, all of them with limit 0 or none.
C15_ListMine ==
  [][\A h \in CallIds :
       Arrives(h, "listMine")
       => LET c == calls'[h]
              list == c.list
          IN /\ Answered(c, 200)
             /\ \A i \in DOMAIN list : list[i] \in Mine(c)
             /\ \A i, j \in DOMAIN list : i # j => list[i] # list[j]
             /\ \A i, j \in DOMAIN list :
                  i < j => CreatedAtRank(requests[list[i]].createdAt)
                             >= CreatedAtRank(requests[list[j]].createdAt)
             /\ c.query.limit = "1" => Len(list) <= 1
             /\ c.query.limit \in {Absent, "0"}
                => {list[i] : i \in DOMAIN list} = Mine(c)]_vars

\* the caller has an older and a newer request and another user has one too;
\* with limit 1 the answer is the newer one alone
C15_Witness ==
  \E h \in CallIds :
    /\ calls[h].op = "listMine"
    /\ Answered(calls[h], 200)
    /\ calls[h].query.limit = "1"
    /\ Len(calls[h].list) = 1
    /\ \E i \in Ids :
         /\ requests[i].exists
         /\ requests[i].requesterEmail = calls[h].email
         /\ i # calls[h].list[1]
         /\ CreatedAtRank(requests[i].createdAt)
              < CreatedAtRank(requests[calls[h].list[1]].createdAt)

\* C17: no two user documents are stored with one email.
C17_OneUserPerEmail ==
  \A e \in Emails : users[e].copies <= 1

\* C20: the role and the status of a stored user change only in the write of
\* /update-users/role/:id and of /update-users/status/:id, and no stored user
\* goes away; PATCH /users/:email by another caller is answered 403 and
\* changes no user, by the user it is answered 200.
C20_RoleStatusAdminOnly ==
  [][/\ \A e \in Emails :
          users[e].exists
          => /\ users'[e].exists
             /\ users'[e].role # users[e].role
                => \E h \in CallIds :
                     Steps(h, "userRole", "updateOne") /\ calls[h].userId = e
             /\ users'[e].status # users[e].status
                => \E h \in CallIds :
                     Steps(h, "userStatus", "updateOne") /\ calls[h].userId = e
     /\ \A h \in CallIds :
          Arrives(h, "patchUser")
          => IF calls'[h].email # calls'[h].userId
             THEN Answered(calls'[h], 403) /\ users' = users
             ELSE Answered(calls'[h], 200)]_vars

\* a user sent a new name and the role admin to PATCH /users/:email, or to a
\* repeated /add-user: the name is stored, the role is the one held before
C20_Witness ==
  \E h, k \in CallIds :
    /\ calls[h].op = "patchUser" /\ Answered(calls[h], 200)
    /\ calls[h].body.role = "admin"
    /\ calls[h].email = "a"
    /\ calls[k].op = "addUser" /\ Answered(calls[k], 200)
    /\ calls[k].userId = "a" /\ calls[k].body.role = "admin"
    /\ users["a"].name = "N"
    /\ users["a"].role = "donor"
    /\ users["a"].loginCount > 1

\* C21: no step lowers a user's loginCount; an /add-user whose findOne finds
\* the email goes on to its updateOne, and that write adds exactly one to the
\* loginCount stored at that moment, whatever other calls did in between.
C21_LoginCountGrows ==
  [][/\ \A e \in Emails : users'[e].loginCount >= users[e].loginCount
     /\ \A h \in CallIds :
          /\ ( /\ Arrives(h, "addUser")
               /\ calls'[h].userId \in Emails
               /\ users[calls'[h].userId].exists )
             => calls'[h].pc = "updateOne"
          /\ Steps(h, "addUser", "updateOne")
             => /\ Answered(calls'[h], 200)
                /\ users'[calls[h].userId].loginCount
                     = users[calls[h].userId].loginCount + 1]_vars

\* two /add-user calls for the stored email a overlapped and both completed:
\* the loginCount is two more than at the start
C21_Witness ==
  /\ \A h \in CallIds :
       /\ calls[h].op = "addUser" /\ Answered(calls[h], 200)
       /\ calls[h].userId = "a"
  /\ users["a"].loginCount = InitUsers["a"].loginCount + 2

\* C23: the write of a Confirm leaves the request with a donorEmail other than
\* its requesterEmail.
C23_DonorIsNotRequester ==
  [][\A h \in CallIds :
       ( Steps(h, "confirm", "updateOne") /\ requests'[calls[h].id].exists )
       => requests'[calls[h].id].donorEmail
            # requests'[calls[h].id].requesterEmail]_vars

\* _ids are handed out in order and never again: an _id below nextId that
\* holds no document is the _id of a deleted request
Deleted(i) == i < nextId /\ ~requests[i].exists

\* C25: a deleted request stays absent; the write of a Confirm or an update
\* that read the request before it was deleted changes nothing; and a Confirm,
\* update or Delete that arrives for a deleted request is answered 404.
C25_DeletedStaysAbsent ==
  [][/\ \A i \in Ids : Deleted(i) => ~requests'[i].exists
     /\ \A h \in CallIds :
          /\ ( /\ Steps(h, "confirm", "updateOne") \/ Steps(h, "update", "updateOne")
               /\ Deleted(calls[h].id) )
             => requests' = requests
          /\ ( /\ \/ Arrives(h, "confirm") \/ Arrives(h, "update")
                  \/ Arrives(h, "delete")
               /\ calls'[h].id \in Ids
               /\ Deleted(calls'[h].id) )
             => Answered(calls'[h], 404)]_vars

\* a Delete has removed the request while a Confirm or an update that had
\* read it is still before its write
C25_Witness ==
  \E h, k \in CallIds :
    /\ calls[h].op = "delete" /\ Answered(calls[h], 200)
    /\ Deleted(calls[h].id)
    /\ calls[k].op \in {"confirm", "update"}
    /\ calls[k].pc = "updateOne"
    /\ calls[k].id = calls[h].id

\* C24: a stored user gets the role admin or volunteer only in the write of
\* the admin-only /update-users/role/:id, and every stored role is one of
\* donor, volunteer, admin.
C24_ElevatedRoleAdminOnly ==
  [][\A e \in Emails :
       /\ ( /\ users'[e].role \in {"admin", "volunteer"}
            /\ users'[e].role # users[e].role )
          => \E h \in CallIds :
               Steps(h, "userRole", "updateOne") /\ calls[h].userId = e
       /\ users'[e].exists => users'[e].role \in Roles]_vars

\* C22: a blog post is inserted with status draft; the status of a stored
\* post changes only in the write of /blogs/status/:id, to draft or published;
\* the write of a content edit leaves it as it is; a post goes away only in
\* the write of DELETE /blogs/:id; and these two writes are reached only by a
\* caller whose stored role is admin.
C22_BlogStatusAndDelete ==
  [][/\ \A i \in BlogIds :
          /\ ( ~blogs[i].exists /\ blogs'[i].exists )
             => blogs'[i].status = "draft"
          /\ ( /\ blogs[i].exists /\ blogs'[i].exists
               /\ blogs'[i].status # blogs[i].status )
             => /\ blogs'[i].status \in BlogStatuses
                /\ \E h \in CallIds :
                     Steps(h, "blogStatus", "updateOne") /\ calls[h].id = i
          /\ ( blogs[i].exists /\ ~blogs'[i].exists )
             => \E h \in CallIds :
                  Steps(h, "deleteBlog", "deleteOne") /\ calls[h].id = i
     /\ \A h \in CallIds :
          /\ ( /\ Arrives(h, "blogStatus") \/ Arrives(h, "deleteBlog")
               /\ calls'[h].pc \notin {"idle", "done"} )
             => users[calls'[h].email].role = "admin"
          /\ ( /\ Arrives(h, "createBlog") \/ Arrives(h, "editBlog")
               /\ calls'[h].pc \notin {"idle", "done"} )
             => users[calls'[h].email].role \in {"admin", "volunteer"}
          /\ Steps(h, "editBlog", "updateOne")
             => \A i \in BlogIds : blogs'[i].status = blogs[i].status]_vars

\* a post was created with status published in its payload and is stored as
\* a draft, and a volunteer's content edit that carried a status has changed
\* the title of the published post and not its status
C22_Witness ==
  \E h, k \in CallIds :
    /\ calls[h].op = "createBlog" /\ Answered(calls[h], 201)
    /\ calls[h].body.status = "published"
    /\ blogs[calls[h].id].exists /\ blogs[calls[h].id].status = "draft"
    /\ calls[k].op = "editBlog" /\ Answered(calls[k], 200)
    /\ users[calls[k].email].role = "volunteer"
    /\ calls[k].body.status = "draft"
    /\ blogs[calls[k].id].title = calls[k].body.title
    /\ blogs[calls[k].id].status = "published"

====
